---- MODULE Spec2Model ----
(***************************************************************************)
(* Model of backend/app/main.py: the CodeCarbon runner.  A FastAPI process *)
(* loads EXECUTION_TIMEOUT at import time, then serves POST /run requests  *)
(* on worker threads.  Each request validates the payload (run_code),      *)
(* writes it to a temporary directory, builds and starts an emissions      *)
(* tracker (_create_tracker, with the process-wide GPU fallback), runs the *)
(* script in a child process with a sanitized environment and a timeout,   *)
(* stops the tracker and maps the outcome to an HTTP response.             *)
(*                                                                         *)
(* Text (code, stdout, stderr, messages) is a sequence of string tokens;   *)
(* an optional value (None or a value) is a sequence of length 0 or 1.     *)
(***************************************************************************)
EXTENDS Integers, Sequences, FiniteSets, TLC

(* ------------------------------ bounds -------------------------------- *)

\* longest code payload and longest captured stderr, in characters
MaxLen == 2

\* longest time a child needs, in seconds
MaxNeed == 2

\* the worker threads of the HTTP layer that run the synchronous handler
Workers == {"t1", "t2"}

(* ------------------------------- text --------------------------------- *)

Whitespace == {" ", "\n"}

Chars == {" ", "a"}

RECURSIVE StrOfLen(_)
StrOfLen(n) ==
    IF n = 0 THEN {<<>>}
    ELSE {<<c>> \o s : c \in Chars, s \in StrOfLen(n - 1)}

Texts == UNION {StrOfLen(n) : n \in 0..MaxLen}

RECURSIVE LStrip(_)
LStrip(s) ==
    IF s # <<>> /\ Head(s) \in Whitespace THEN LStrip(Tail(s)) ELSE s

RECURSIVE RStrip(_)
RStrip(s) ==
    IF s # <<>> /\ s[Len(s)] \in Whitespace
    THEN RStrip(SubSeq(s, 1, Len(s) - 1))
    ELSE s

\* str.strip()
Strip(s) == RStrip(LStrip(s))

(* ------------------------ EXECUTION_TIMEOUT --------------------------- *)

Digits == {"0", "1", "2", "3", "4", "5", "6", "7", "8", "9"}

DigitVal(c) ==
    CASE c = "0" -> 0 [] c = "1" -> 1 [] c = "2" -> 2 [] c = "3" -> 3
      [] c = "4" -> 4 [] c = "5" -> 5 [] c = "6" -> 6 [] c = "7" -> 7
      [] c = "8" -> 8 [] c = "9" -> 9

RECURSIVE DigitsVal(_)
DigitsVal(s) ==
    IF s = <<>> THEN 0
    ELSE 10 * DigitsVal(SubSeq(s, 1, Len(s) - 1)) + DigitVal(s[Len(s)])

\* float(text) on the texts the model draws: an optional sign, then digits
ParseFloat(s) ==
    LET t == Strip(s)
        signed == t # <<>> /\ Head(t) \in {"-", "+"}
        body == IF signed THEN Tail(t) ELSE t
    IN  IF body # <<>> /\ \A i \in 1..Len(body) : body[i] \in Digits
        THEN [ok |-> TRUE,
              value |-> IF signed /\ Head(t) = "-" THEN 0 - DigitsVal(body)
                        ELSE DigitsVal(body)]
        ELSE [ok |-> FALSE, value |-> 0]

\* the values of the EXECUTION_TIMEOUT environment variable the model draws:
\* unset (<<>>), or set to a text
RawTimeouts ==
    {<<>>, << <<" ", "1">> >>, << <<"0">> >>, << <<"-", "1">> >>,
     << <<"x">> >>, << <<>> >>}

DefaultTimeoutText == <<"1", "0">>

LoadExecutionTimeout(raw) ==
    LET raw_timeout == Strip(IF raw = <<>> THEN DefaultTimeoutText ELSE raw[1])
        parsed == ParseFloat(raw_timeout)
    IN  IF ~parsed.ok THEN [ok |-> FALSE, value |-> 0]
        ELSE IF parsed.value <= 0 THEN [ok |-> FALSE, value |-> 0]
        ELSE [ok |-> TRUE, value |-> parsed.value]

(* ----------------------------- exceptions ----------------------------- *)

\* An exception: its class name and its arguments as tokens, and the call
\* that raised it (src is bookkeeping: Python's traceback).
Exc(name, args, src) == [name |-> name, args |-> args, src |-> src]

\* str(exc)
StrExc(e) == e.args

\* repr(exc): ClassName(args)
ReprExc(e) == e.name \o <<"(">> \o e.args \o <<")">>

\* isinstance(exc, NVMLError): pynvml names every subclass NVMLError_<Reason>
IsNvmlInstance(e) == Len(e.name) > 1 /\ Head(e.name) = "NVMLError"

\* _is_gpu_tracker_error
IsGpuTrackerError(e) ==
    \/ IsNvmlInstance(e)
    \/ (e.name # <<>> /\ Head(e.name) = "NVMLError")
    \/ \E i \in 1..Len(ReprExc(e)) : ReprExc(e)[i] = "pynvml"

\* what GPU telemetry raises while GPU detection is on
GpuErrors(src) ==
    {Exc(<<"NVMLError", "_LibraryNotFound">>, <<"NVML Shared Library Not Found">>, src),
     Exc(<<"RuntimeError">>, <<"pynvml", " is not initialised">>, src)}

\* what the tracker raises for any other reason
OtherErrors(src) == {Exc(<<"RuntimeError">>, <<"tracker failure">>, src)}

\* the exceptions a tracker call can raise, given is_gpu_details_available
TrackerErrors(detect, src) ==
    OtherErrors(src) \cup (IF detect THEN GpuErrors(src) ELSE {})

FallbackMessage == <<"Execution failed.">>

FormatFloat(v) == ToString(v) \o ".0"

TimeoutMessage(timeout) ==
    <<"Execution timed out after ", FormatFloat(timeout), " seconds.">>

ExecutionError(msg) == Exc(<<"ExecutionError">>, msg, "run_python")

IsExecutionError(e) == e.name = <<"ExecutionError">>

(* ---------------------------- environment ----------------------------- *)

EnvKeys == {"PATH", "HOME", "CODECARBON_HIDE_GPU", "CODECARBON_COUNTRY"}

\* os.getenv(key): <<>> when unset
Getenv(env, key) == IF key \in DOMAIN env THEN env[key] ELSE <<>>

\* os.environ.setdefault(key, value)
Setdefault(env, key, value) ==
    IF env[key] = <<>> THEN [env EXCEPT ![key] = <<value>>] ELSE env

\* a slip: the child inherits os.environ and the two keys are added to it
SanitizeEnvironmentInherit(env) ==
    LET set == {k \in DOMAIN env : env[k] # <<>>}
    IN  ("PYTHONUNBUFFERED" :> "1") @@ ("PYTHONIOENCODING" :> "utf-8")
            @@ [k \in set |-> env[k][1]]

SanitizeEnvironment(env) ==
    LET safe_env == ("PYTHONUNBUFFERED" :> "1") @@ ("PYTHONIOENCODING" :> "utf-8")
        path == Getenv(env, "PATH")
    IN  IF path # <<>> /\ path[1] # ""
        THEN safe_env @@ ("PATH" :> path[1])
        ELSE safe_env

(* ------------------------------ metrics ------------------------------- *)

\* the measurement records the wrapped library produces
D1 == [emissions |-> 2, energy_consumed |-> 3, cpu_energy |-> 1, gpu_energy |-> 0,
       duration |-> 1, country_name |-> <<"India">>]

D2 == [emissions |-> 0, energy_consumed |-> 0, cpu_energy |-> 0, gpu_energy |-> 0,
       duration |-> 0, country_name |-> <<>>]

\* the tracker's measurement state when it is read: final_emissions_data
\* (None or a record) and the _emissions_data cache
TrackerData ==
    {[final |-> <<>>, cached |-> <<>>],
     [final |-> <<D1>>, cached |-> <<D2>>],
     [final |-> <<>>, cached |-> <<D1, D2>>],
     [final |-> <<>>, cached |-> <<D2, D1>>]}

NoData == [final |-> <<>>, cached |-> <<>>]

LatestEmissionsData(t) ==
    IF t.final # <<>> THEN t.final
    ELSE IF t.cached # <<>> THEN <<t.cached[Len(t.cached)]>>
    ELSE <<>>

\* getattr(obj, name, default)
GetAttr(obj, name, default) == IF name \in DOMAIN obj THEN obj[name] ELSE default

DefaultMetrics ==
    [emissions |-> 0, energy_kwh |-> 0, cpu_energy |-> 0, gpu_energy |-> 0,
     duration |-> 0, carbon_intensity |-> <<>>, country |-> <<"None">>]

CollectTrackerMetrics(t) ==
    LET data == LatestEmissionsData(t)
    IN  IF data = <<>> THEN DefaultMetrics
        ELSE [emissions |-> GetAttr(data[1], "emissions", 0) * 1000,
              energy_kwh |-> GetAttr(data[1], "energy_consumed", 0),
              cpu_energy |-> GetAttr(data[1], "cpu_energy", 0),
              gpu_energy |-> GetAttr(data[1], "gpu_energy", 0),
              duration |-> GetAttr(data[1], "duration", 0),
              carbon_intensity |-> GetAttr(data[1], "carbon_intensity", <<>>),
              country |-> GetAttr(data[1], "country_name", <<>>)]

\* metrics["stdout"], metrics["stderr"] = completed.stdout, completed.stderr
RunResult(metrics, completed) ==
    [metrics |-> metrics, stdout |-> completed.stdout, stderr |-> completed.stderr]

(* ------------------------------- state -------------------------------- *)

VARIABLES
    phase,                 \* "boot", "serving", or "crashed" (import failed)
    EXECUTION_TIMEOUT,     \* module constant set by _load_execution_timeout()
    GPU_TRACKING_ENABLED,  \* the module global _GPU_TRACKING_ENABLED
    environ,               \* os.environ: key -> <<>> (unset) or <<value>>
    gpuDetect,             \* FALSE once is_gpu_details_available is patched
    hasCountryParam,       \* the installed EmissionsTracker takes country_iso_code
    threads,               \* the worker threads the HTTP layer runs handlers on
    load,                  \* the payloads and child behaviours clients submit
    reconfigs,             \* history: passes of _disable_gpu_tracking's guard
    raced,                 \* history: a pass of the guard overlapped another
    gpuErrSeen,            \* history: a construction raised a GPU-telemetry error
    req                    \* per worker thread: the request it is handling

vars == <<phase, EXECUTION_TIMEOUT, GPU_TRACKING_ENABLED, environ, gpuDetect,
          hasCountryParam, threads, load, reconfigs, raced, gpuErrSeen, req>>

shared == <<GPU_TRACKING_ENABLED, environ, gpuDetect, reconfigs, raced, gpuErrSeen>>

config == <<phase, EXECUTION_TIMEOUT, hasCountryParam, threads, load>>

\* a worker that handles no request
IdleReq ==
    [pc |-> "idle", code |-> <<>>, tmpdir |-> "none", tracker |-> "none",
     child |-> "none", childEnv |-> <<>>, completed |-> <<>>, tdata |-> <<>>,
     caught |-> <<>>, applied |-> FALSE, exc |-> <<>>, result |-> <<>>,
     resp |-> <<>>]

Response(status, detail, body) == [status |-> status, detail |-> detail, body |-> body]

UnsetEnviron == [k \in EnvKeys |-> <<>>]

\* the ambient environments the server is started in
PlainEnviron == [UnsetEnviron EXCEPT !["PATH"] = <<"/usr/bin">>, !["HOME"] = <<"/root">>]

ServerEnvirons ==
    {PlainEnviron, [PlainEnviron EXCEPT !["PATH"] = <<"">>],
     [PlainEnviron EXCEPT !["PATH"] = <<>>]}

StdoutSamples == {<<>>, <<"4", "2", "\n">>}

\* what subprocess.run returns when the child exits in time
CompletedProcesses ==
    [returncode : {0, 1}, stdout : StdoutSamples, stderr : Texts]

\* every payload and child behaviour within the bounds
FullLoad ==
    [codes |-> Texts, procs |-> CompletedProcesses, tdata |-> TrackerData]

\* a few payloads and child behaviours, for the runs with overlapping requests
LightLoad ==
    [codes |-> {<<>>, <<"a">>},
     procs |-> {[returncode |-> 0, stdout |-> <<"4", "2", "\n">>, stderr |-> <<" ", "a">>],
                [returncode |-> 1, stdout |-> <<>>, stderr |-> <<"a", " ">>],
                [returncode |-> 1, stdout |-> <<>>, stderr |-> <<" ">>]},
     tdata |-> {NoData, [final |-> <<D1>>, cached |-> <<D2>>]}]

InitWith(T, L, E) ==
    /\ phase = "boot"
    /\ EXECUTION_TIMEOUT = 0
    /\ GPU_TRACKING_ENABLED = TRUE
    /\ environ \in E
    /\ gpuDetect = TRUE
    /\ hasCountryParam \in BOOLEAN
    /\ threads = T
    /\ load = L
    /\ reconfigs = 0
    /\ raced = FALSE
    /\ gpuErrSeen = FALSE
    /\ req = [w \in Workers |-> IdleReq]

\* one request at a time, every input within the bounds
Init == InitWith({"t1"}, FullLoad, ServerEnvirons)

\* two worker threads whose requests overlap
InitConc == InitWith(Workers, LightLoad, {PlainEnviron})

Set(w, r) == req' = [req EXCEPT ![w] = r]

At(w, label) == phase = "serving" /\ req[w].pc = label

(* ----------------------------- start-up ------------------------------- *)

\* EXECUTION_TIMEOUT = _load_execution_timeout(): a RuntimeError at import
\* time keeps the process from serving
Boot ==
    /\ phase = "boot"
    /\ \E raw \in RawTimeouts :
        LET loaded == LoadExecutionTimeout(raw)
        IN  IF loaded.ok
            THEN phase' = "serving" /\ EXECUTION_TIMEOUT' = loaded.value
            ELSE phase' = "crashed" /\ UNCHANGED EXECUTION_TIMEOUT
    /\ UNCHANGED <<shared, hasCountryParam, threads, load, req>>

(* ------------------------------ run_code ------------------------------ *)

EmptyPayloadDetail == <<"Code payload cannot be empty.">>

\* a slip: the payload is tested without strip()
ValidatePayloadUnstripped(r, code) ==
    IF code = <<>>
    THEN [r EXCEPT !.code = code, !.pc = "done",
                   !.resp = <<Response(400, EmptyPayloadDetail, <<>>)>>]
    ELSE [r EXCEPT !.code = code, !.pc = "mktmp"]

\* run_code, line 206: the payload check
ValidatePayload(r, code) ==
    IF Strip(code) = <<>>
    THEN [r EXCEPT !.code = code, !.pc = "done",
                   !.resp = <<Response(400, EmptyPayloadDetail, <<>>)>>]
    ELSE [r EXCEPT !.code = code, !.pc = "mktmp"]

\* a POST /run request reaches a free worker thread
RunCode(w) ==
    /\ At(w, "idle")
    /\ w \in threads
    /\ \E code \in load.codes : Set(w, ValidatePayload(req[w], code))
    /\ UNCHANGED <<config, shared>>

\* a slip: one except clause that answers 400 for every exception
MapOutcomeAllClientErrors(r) ==
    IF r.exc = <<>>
    THEN Response(200, <<>>, r.result)
    ELSE Response(400, StrExc(r.exc[1]), <<>>)

\* the except clauses of run_code and the final RunResponse(**result)
MapOutcome(r) ==
    IF r.exc = <<>>
    THEN Response(200, <<>>, r.result)
    ELSE IF IsExecutionError(r.exc[1])
    THEN Response(400, StrExc(r.exc[1]), <<>>)
    ELSE Response(500, <<"Execution failed: ">> \o StrExc(r.exc[1]), <<>>)

\* run_python has returned or raised: run_code answers
Respond(w) ==
    /\ At(w, "returned")
    /\ Set(w, [req[w] EXCEPT !.pc = "done", !.resp = <<MapOutcome(req[w])>>])
    /\ UNCHANGED <<config, shared>>

\* the response is sent and the request's objects are dropped
Finish(w) ==
    /\ At(w, "done")
    /\ Set(w, IdleReq)
    /\ UNCHANGED <<config, shared>>

(* ----------------------------- run_python ----------------------------- *)

\* leaving the "with tempfile.TemporaryDirectory()" block
ExitTmpDir(r) == [r EXCEPT !.tmpdir = IF @ = "exists" THEN "removed" ELSE @]

\* an exception leaves run_python through the with block
Raise(r, e) == [ExitTmpDir(r) EXCEPT !.pc = "returned", !.exc = <<e>>]

\* lines 174-176: the temporary directory and script.py
EnterTmpDir(w) ==
    /\ At(w, "mktmp")
    /\ \E ok \in BOOLEAN :
        IF ok
        THEN Set(w, [req[w] EXCEPT !.tmpdir = "exists", !.pc = "kwargs"])
        ELSE Set(w, Raise([req[w] EXCEPT !.tmpdir = "exists"],
                          Exc(<<"OSError">>, <<"No space left on device">>, "write_text")))
    /\ UNCHANGED <<config, shared>>

(* --------------------------- _create_tracker -------------------------- *)

\* what a call of the tracker raises: <<>> (nothing) or <<exception>>
TrackerCall(detect, src) == {<<>>} \cup {<<e>> : e \in TrackerErrors(detect, src)}

\* lines 107-116: the constructor's signature is probed for country_iso_code
TrackerKwargs(w) ==
    /\ At(w, "kwargs")
    /\ environ' = IF hasCountryParam THEN environ
                  ELSE Setdefault(environ, "CODECARBON_COUNTRY", "IND")
    /\ Set(w, [req[w] EXCEPT !.pc = "ensure"])
    /\ UNCHANGED <<config, GPU_TRACKING_ENABLED, gpuDetect, reconfigs,
                   raced, gpuErrSeen>>

\* _patch_gpu_detection_to_false
PatchGpuDetectionToFalse(detect) == FALSE

\* _ensure_gpu_tracking_state, called on line 117
EnsureGpuTrackingState(w) ==
    /\ At(w, "ensure")
    /\ gpuDetect' = IF ~GPU_TRACKING_ENABLED THEN PatchGpuDetectionToFalse(gpuDetect)
                    ELSE gpuDetect
    /\ Set(w, [req[w] EXCEPT !.pc = "construct"])
    /\ UNCHANGED <<config, GPU_TRACKING_ENABLED, environ, reconfigs,
                   raced, gpuErrSeen>>

\* lines 118-122 and 124: the first construction and the except clause
Construct(w) ==
    /\ At(w, "construct")
    /\ \E raised \in TrackerCall(gpuDetect, "EmissionsTracker") :
        IF raised = <<>>
        THEN /\ Set(w, [req[w] EXCEPT !.tracker = "created", !.pc = "start"])
             /\ UNCHANGED gpuErrSeen
        ELSE IF IsGpuTrackerError(raised[1])
        THEN /\ Set(w, [req[w] EXCEPT !.caught = raised, !.pc = "guard"])
             /\ gpuErrSeen' = TRUE
        ELSE /\ Set(w, Raise(req[w], raised[1]))
             /\ UNCHANGED gpuErrSeen
    /\ UNCHANGED <<config, GPU_TRACKING_ENABLED, environ, gpuDetect,
                   reconfigs, raced>>

\* a slip: _disable_gpu_tracking without its guard
GuardAlwaysPasses(enabled) == TRUE

\* _disable_gpu_tracking, lines 92-93: the guard passes while the flag is set
GuardPasses(enabled) == enabled

DisableGuard(w) ==
    /\ At(w, "guard")
    /\ IF GuardPasses(GPU_TRACKING_ENABLED)
       THEN /\ Set(w, [req[w] EXCEPT !.pc = "clear", !.applied = TRUE])
            /\ reconfigs' = reconfigs + 1
            /\ raced' = (raced \/ \E v \in Workers \ {w} : req[v].pc = "clear")
       ELSE /\ Set(w, [req[w] EXCEPT !.pc = "retry"])
            /\ UNCHANGED <<reconfigs, raced>>
    /\ UNCHANGED <<config, GPU_TRACKING_ENABLED, environ, gpuDetect,
                   gpuErrSeen>>

\* a slip: the flag is toggled instead of cleared
ToggledFlag(enabled) == ~enabled

\* line 94: _GPU_TRACKING_ENABLED = False
ClearedFlag(enabled) == FALSE

DisableClearFlag(w) ==
    /\ At(w, "clear")
    /\ GPU_TRACKING_ENABLED' = ClearedFlag(GPU_TRACKING_ENABLED)
    /\ Set(w, [req[w] EXCEPT !.pc = "hide"])
    /\ UNCHANGED <<config, environ, gpuDetect, reconfigs, raced, gpuErrSeen>>

\* line 95: os.environ.setdefault("CODECARBON_HIDE_GPU", "1")
DisableHideGpu(w) ==
    /\ At(w, "hide")
    /\ environ' = Setdefault(environ, "CODECARBON_HIDE_GPU", "1")
    /\ Set(w, [req[w] EXCEPT !.pc = "patch"])
    /\ UNCHANGED <<config, GPU_TRACKING_ENABLED, gpuDetect, reconfigs,
                   raced, gpuErrSeen>>

\* lines 96-98: _patch_gpu_detection_to_false() and the warning
DisablePatch(w) ==
    /\ At(w, "patch")
    /\ gpuDetect' = PatchGpuDetectionToFalse(gpuDetect)
    /\ Set(w, [req[w] EXCEPT !.pc = "retry"])
    /\ UNCHANGED <<config, GPU_TRACKING_ENABLED, environ, reconfigs,
                   raced, gpuErrSeen>>

\* line 123: the second construction, outside any try
RetryConstruct(w) ==
    /\ At(w, "retry")
    /\ \E raised \in TrackerCall(gpuDetect, "EmissionsTracker retry") :
        IF raised = <<>>
        THEN Set(w, [req[w] EXCEPT !.tracker = "created", !.pc = "start"])
        ELSE Set(w, Raise(req[w], raised[1]))
    /\ UNCHANGED <<config, shared>>

(* ------------------------- run_python, continued ---------------------- *)

\* line 179: tracker.start(), before the try
StartTracker(w) ==
    /\ At(w, "start")
    /\ \E raised \in TrackerCall(gpuDetect, "start") :
        IF raised = <<>>
        THEN Set(w, [req[w] EXCEPT !.tracker = "started", !.pc = "spawn"])
        ELSE Set(w, Raise(req[w], raised[1]))
    /\ UNCHANGED <<config, shared>>

NonZeroExitMessage(stderr) ==
    IF Strip(stderr) # <<>> THEN Strip(stderr) ELSE FallbackMessage

\* a slip: tracker.stop() in an else clause, skipped when the try block raised
StopUnlessRaised(r, inflight, stopRaised) ==
    IF inflight # <<>> THEN [r |-> r, inflight |-> inflight]
    ELSE [r |-> [r EXCEPT !.tracker = IF stopRaised = <<>> THEN "stopped" ELSE "stop_raised"],
          inflight |-> stopRaised]

\* the finally clause, line 192: tracker.stop(); an exception it raises
\* replaces the one in flight
Finally(r, inflight, stopRaised) ==
    [r |-> [r EXCEPT !.tracker = IF stopRaised = <<>> THEN "stopped" ELSE "stop_raised"],
     inflight |-> IF stopRaised # <<>> THEN stopRaised ELSE inflight]

\* lines 189-201: from the end of subprocess.run to the end of run_python.
\* inflight is the exception the try block raised, proc the CompletedProcess.
RunPythonEnd(r, inflight, proc, stopRaised, td) ==
    LET f == Finally(r, inflight, stopRaised)
    IN  IF f.inflight # <<>> THEN Raise(f.r, f.inflight[1])
        ELSE IF proc[1].returncode # 0
        THEN Raise(f.r, ExecutionError(NonZeroExitMessage(proc[1].stderr)))
        ELSE [ExitTmpDir(f.r) EXCEPT
                 !.pc = "returned", !.tdata = <<td>>,
                 !.result = <<RunResult(CollectTrackerMetrics(td), proc[1])>>]

\* lines 181-188: subprocess.run spawns the child with the sanitized
\* environment, or fails to (OSError) and the finally clause runs
SpawnChild(w) ==
    /\ At(w, "spawn")
    /\ \/ Set(w, [req[w] EXCEPT !.child = "running", !.pc = "wait",
                                !.childEnv = <<SanitizeEnvironment(environ)>>])
       \/ \E stopRaised \in TrackerCall(gpuDetect, "stop") :
            Set(w, RunPythonEnd(req[w],
                                <<Exc(<<"OSError">>, <<"Resource temporarily unavailable">>, "Popen")>>,
                                <<>>, stopRaised, NoData))
    /\ UNCHANGED <<config, shared>>

\* subprocess.run returns a CompletedProcess, or kills the child at the
\* timeout and raises TimeoutExpired
ChildExits(w) ==
    /\ At(w, "wait")
    /\ \E need \in 1..MaxNeed, proc \in load.procs,
          stopRaised \in TrackerCall(gpuDetect, "stop"), td \in load.tdata :
        /\ need <= EXECUTION_TIMEOUT
        /\ Set(w, RunPythonEnd([req[w] EXCEPT !.child = "exited", !.completed = <<proc>>],
                               <<>>, <<proc>>, stopRaised, td))
    /\ UNCHANGED <<config, shared>>

ChildTimesOut(w) ==
    /\ At(w, "wait")
    /\ \E need \in 1..MaxNeed, stopRaised \in TrackerCall(gpuDetect, "stop") :
        /\ need >= EXECUTION_TIMEOUT
        /\ Set(w, RunPythonEnd([req[w] EXCEPT !.child = "killed"],
                               <<ExecutionError(TimeoutMessage(EXECUTION_TIMEOUT))>>,
                               <<>>, stopRaised, NoData))
    /\ UNCHANGED <<config, shared>>

(* --------------------------- specification ---------------------------- *)

Next ==
    \/ Boot
    \/ \E w \in Workers :
        \/ RunCode(w)
        \/ EnterTmpDir(w)
        \/ TrackerKwargs(w)
        \/ EnsureGpuTrackingState(w)
        \/ Construct(w)
        \/ DisableGuard(w)
        \/ DisableClearFlag(w)
        \/ DisableHideGpu(w)
        \/ DisablePatch(w)
        \/ RetryConstruct(w)
        \/ StartTracker(w)
        \/ SpawnChild(w)
        \/ ChildExits(w)
        \/ ChildTimesOut(w)
        \/ Respond(w)
        \/ Finish(w)

Spec == Init /\ [][Next]_vars

SpecConc == InitConc /\ [][Next]_vars

(* ------------------------------- claims ------------------------------- *)

Done(w) == req[w].pc = "done"

\* the payload is empty or whitespace only
Blank(code) == \A i \in 1..Len(code) : code[i] \in Whitespace

\* the child exited by itself, within the timeout
Exited(w) == req[w].child = "exited" /\ req[w].completed # <<>>

\* text with no whitespace at either end
Trimmed(t) == t = <<>> \/ (t[1] \notin Whitespace /\ t[Len(t)] \notin Whitespace)

\* t is s without its leading and trailing whitespace
IsTrimOf(t, s) ==
    /\ Trimmed(t)
    /\ \E i \in 0..Len(s) :
        /\ i + Len(t) <= Len(s)
        /\ t = SubSeq(s, i + 1, i + Len(t))
        /\ \A j \in (1..i) \cup ((i + Len(t) + 1)..Len(s)) : s[j] \in Whitespace

TrackerSources == {"EmissionsTracker", "EmissionsTracker retry", "start", "stop"}

\* C1: every request whose child exits with status 0 within the timeout gets
\* a success response that carries exactly the child's captured stdout and
\* stderr and a duration >= 0.
C1_SuccessResponse ==
    \A w \in Workers :
        (Done(w) /\ Exited(w) /\ req[w].completed[1].returncode = 0) =>
            /\ req[w].resp[1].status = 200
            /\ req[w].resp[1].body # <<>>
            /\ req[w].resp[1].body[1].stdout = req[w].completed[1].stdout
            /\ req[w].resp[1].body[1].stderr = req[w].completed[1].stderr
            /\ req[w].resp[1].body[1].metrics.duration >= 0

\* C2: every request whose child exits with a non-zero status is answered
\* 400 with the trimmed stderr as detail, or "Execution failed." when stderr
\* is empty, and with no result.
C2_NonZeroExit ==
    \A w \in Workers :
        (Done(w) /\ Exited(w) /\ req[w].completed[1].returncode # 0) =>
            /\ req[w].exc # <<>> /\ req[w].exc[1].name = <<"ExecutionError">>
            /\ req[w].resp[1].status = 400
            /\ req[w].resp[1].body = <<>>
            /\ req[w].result = <<>>
            /\ LET detail == req[w].resp[1].detail
                   stderr == req[w].completed[1].stderr
               IN  IF Blank(stderr) THEN detail = <<"Execution failed.">>
                   ELSE IsTrimOf(detail, stderr)

\* C3: every request whose child exceeded EXECUTION_TIMEOUT and was killed
\* is answered 400 with the timeout message naming the configured value.
C3_Timeout ==
    \A w \in Workers :
        (Done(w) /\ req[w].child = "killed") =>
            /\ req[w].exc # <<>> /\ req[w].exc[1].name = <<"ExecutionError">>
            /\ req[w].resp[1].status = 400
            /\ req[w].resp[1].detail =
                 <<"Execution timed out after ", ToString(EXECUTION_TIMEOUT) \o ".0",
                   " seconds.">>

\* C4: a request whose code is empty or whitespace only is answered 400 and
\* never reaches the execution service: no temporary directory, no tracker,
\* no child process.
C4_EmptyPayloadRejected ==
    \A w \in Workers :
        (req[w].pc # "idle" /\ Blank(req[w].code)) =>
            /\ Done(w)
            /\ req[w].resp # <<>> /\ req[w].resp[1].status = 400
            /\ req[w].resp[1].body = <<>>
            /\ req[w].tmpdir = "none"
            /\ req[w].tracker = "none"
            /\ req[w].child = "none"
            /\ req[w].exc = <<>> /\ req[w].result = <<>>

\* C4 witness: a whitespace-only payload has been rejected
C4_Witness ==
    \E w \in Workers :
        Done(w) /\ req[w].code # <<>> /\ Blank(req[w].code) /\ req[w].resp[1].status = 400

\* C5: a request with non-empty code ends in exactly one of: 200 with the
\* result of run_python; 400 with the ExecutionError's message, if and only
\* if run_python raised ExecutionError; 500 with the wrapped message for any
\* other exception.
C5_OutcomeMapping ==
    \A w \in Workers :
        (Done(w) /\ ~Blank(req[w].code)) =>
            /\ req[w].resp # <<>>
            /\ req[w].resp[1].status \in {200, 400, 500}
            /\ (req[w].resp[1].status = 200) <=>
                 (req[w].exc = <<>> /\ req[w].result # <<>>
                    /\ req[w].resp[1].body = req[w].result)
            /\ (req[w].resp[1].status = 400) <=>
                 (req[w].exc # <<>> /\ req[w].exc[1].name = <<"ExecutionError">>)
            /\ (req[w].resp[1].status = 400) =>
                 req[w].resp[1].detail = req[w].exc[1].args
            /\ (req[w].resp[1].status = 500) <=>
                 (req[w].exc # <<>> /\ req[w].exc[1].name # <<"ExecutionError">>)
            /\ (req[w].resp[1].status = 500) =>
                 req[w].resp[1].detail = <<"Execution failed: ">> \o req[w].exc[1].args
            /\ (req[w].resp[1].status # 200) => req[w].resp[1].body = <<>>

\* C5 witness: an exception that is no ExecutionError has been answered 500
C5_Witness ==
    \E w \in Workers :
        Done(w) /\ req[w].resp[1].status = 500 /\ req[w].exc[1].src = "Popen"

\* C6: no failure of the tracker (construction, start, stop) is reported to
\* the caller, and a request whose child exits 0 in time succeeds.
C6_MeasurementNeverFails ==
    \A w \in Workers :
        Done(w) =>
            /\ req[w].exc # <<>> => req[w].exc[1].src \notin TrackerSources
            /\ (Exited(w) /\ req[w].completed[1].returncode = 0) =>
                 req[w].resp[1].status = 200

\* the keys the child always gets
FixedChildEnv == [k \in {"PYTHONUNBUFFERED", "PYTHONIOENCODING"} |->
                    IF k = "PYTHONUNBUFFERED" THEN "1" ELSE "utf-8"]

\* C7 as stated: the child's environment holds the two fixed keys, and PATH
\* with its ambient value if and only if PATH is present in os.environ.
C7_PathIffPresent ==
    \A w \in Workers :
        req[w].childEnv # <<>> =>
            LET env == req[w].childEnv[1]
            IN  /\ \A k \in DOMAIN FixedChildEnv :
                     k \in DOMAIN env /\ env[k] = FixedChildEnv[k]
                /\ DOMAIN env \subseteq DOMAIN FixedChildEnv \cup {"PATH"}
                /\ ("PATH" \in DOMAIN env) <=> (environ["PATH"] # <<>>)

\* C7 amended: spawning the child leaves os.environ unchanged and passes
\* exactly PYTHONUNBUFFERED=1, PYTHONIOENCODING=utf-8 and, if and only if
\* PATH is set to a non-empty value, PATH with that value.
C7_PathIffNonEmpty ==
    [][\A w \in Workers :
         (req[w].pc = "spawn" /\ req'[w].pc = "wait") =>
            /\ environ' = environ
            /\ req'[w].childEnv # <<>>
            /\ LET env == req'[w].childEnv[1]
                   path == environ["PATH"]
                   kept == path # <<>> /\ path # <<"">>
               IN  /\ \A k \in DOMAIN FixedChildEnv :
                        k \in DOMAIN env /\ env[k] = FixedChildEnv[k]
                   /\ DOMAIN env = DOMAIN FixedChildEnv \cup (IF kept THEN {"PATH"} ELSE {})
                   /\ kept => env["PATH"] = path[1]]_vars

\* C7 witness: a child was spawned without PATH although PATH is set (to "")
\* while other variables are set in os.environ
C7_Witness ==
    \E w \in Workers :
        /\ req[w].child = "running"
        /\ environ["PATH"] = <<"">>
        /\ environ["HOME"] # <<>>
        /\ environ["CODECARBON_COUNTRY"] # <<>>
        /\ "PATH" \notin DOMAIN req[w].childEnv[1]

Reconfigured ==
    /\ ~GPU_TRACKING_ENABLED
    /\ environ["CODECARBON_HIDE_GPU"] # <<>>
    /\ ~gpuDetect

C10_FlagOneWay ==
    /\ GPU_TRACKING_ENABLED = TRUE
    /\ [][/\ GPU_TRACKING_ENABLED' => GPU_TRACKING_ENABLED
          /\ (GPU_TRACKING_ENABLED /\ ~GPU_TRACKING_ENABLED') =>
               /\ gpuErrSeen
               /\ \E w \in Workers :
                    /\ req[w].pc = "clear" /\ req'[w].pc = "hide"
                    /\ req[w].caught # <<>>
                    /\ req[w].caught[1].src = "EmissionsTracker"]_vars

\* C10 witness: with the flag cleared, a later request (one that did not
\* clear it) has been answered
C10_Witness ==
    /\ ~GPU_TRACKING_ENABLED
    /\ gpuErrSeen
    /\ \E w \in Workers : Done(w) /\ req[w].caught = <<>> /\ req[w].resp[1].status = 200

====
